---- MODULE Spec2Model ----
(***************************************************************************)
(* Model of mspider.py: the retrying runner scrape_with_retry and the main *)
(* scraping loop that calls it once per category and saves each result.    *)
(*                                                                         *)
(* Spec        the program: the main loop over the category list, run up   *)
(*             to MaxRuns times over one file system.                      *)
(* SpecLists   one run of the main loop over a list of two distinct        *)
(*             identifiers drawn from a bounded set.                       *)
(* SpecOnce    one run of the program, every step of which is eventually   *)
(*             taken: each call the script makes returns or raises.        *)
(* SpecRunner  one call of scrape_with_retry with arguments drawn from     *)
(*             bounded sets.                                               *)
(***************************************************************************)
EXTENDS Integers, Sequences, FiniteSets, TLC

VARIABLES
    categories,   \* the list the main loop iterates (module-level `categories`)
    run,          \* which execution of the script this is (1-based)
    today,        \* the calendar day time.strftime sees (all runs on one day)
    pc,           \* position of the program
    idx,          \* 1-based position of the main loop in categories
    url,          \* scrape_with_retry: parameter url
    max_retries,  \* scrape_with_retry: parameter max_retries
    delay,        \* scrape_with_retry: parameter delay (reassigned at line 113)
    delay0,       \* the value delay had when the call was made
    attempt,      \* scrape_with_retry: loop variable attempt (0-based)
    result,       \* value returned by scrape_with_retry
    err,          \* exception in flight out of scrape_with_retry
    trace,        \* what the current runner call did, in order
    events,       \* what the main loop did in this run, in order
    files,        \* the file system: name -> sequence of chunks written
    files0,       \* the file system as this run found it
    engine_calls, \* engine invocations (line 99) made so far in this run
    waits         \* backoff waits (line 111) made so far in this run

vars == <<categories, run, today, pc, idx, url, max_retries, delay, delay0,
          attempt, result, err, trace, events, files, files0,
          engine_calls, waits>>

runnerVars == <<url, max_retries, delay, delay0, attempt, result, err, trace>>

----------------------------------------------------------------------------
(* Bounds of the model *)

MaxRuns == 2         \* executions of the script over the same directory
MaxRetries == 3      \* largest max_retries argument (SpecRunner)
MaxIdLen == 2        \* longest identifier, in tokens (SpecLists)

----------------------------------------------------------------------------
(* Program constants *)

DefaultMaxRetries == 3
DefaultDelay == 5
InterItemDelay == 5

\* Lines 70-73. An identifier is the sequence of its tokens; "/" is the
\* path separator that line 125 splits on.
CategoryList == << <<"Cell Phones">>, <<"Tablets">>, <<"Computers">> >>

\* Values the external engine and the operating system can produce.
Results == {"r1", "r2"}
None == "None"
EngineErrors == {"engine_error"}
MonitorErrors == {"exec_info_error"}
OpenErrors == {"open_error"}
WriteErrors == {"write_error"}
NoError == "-"

\* Arguments of scrape_with_retry in SpecRunner.
RetryArgs == (0 - 1)..MaxRetries
DelayArgs == {1, DefaultDelay}

----------------------------------------------------------------------------
(* Events *)

\* One step of a runner call.
Ev(kind, num, txt) == [kind |-> kind, num |-> num, url |-> url, txt |-> txt]

\* One step of the main loop, for item i.
BEv(kind, i, num, txt, name) ==
    [kind |-> kind, item |-> i, num |-> num, txt |-> txt, name |-> name]

RECURSIVE SelectKind(_, _)
SelectKind(s, kinds) ==
    IF s = <<>> THEN <<>>
    ELSE IF Head(s).kind \in kinds
         THEN <<Head(s)>> \o SelectKind(Tail(s), kinds)
         ELSE SelectKind(Tail(s), kinds)

\* The positions of the events of s whose kind is in kinds, in order.
Positions(s, kinds) ==
    LET RECURSIVE From(_)
        From(p) == IF p > Len(s) THEN <<>>
                   ELSE IF s[p].kind \in kinds THEN <<p>> \o From(p + 1)
                   ELSE From(p + 1)
    IN  From(1)

RECURSIVE Pow2(_)
Pow2(k) == IF k <= 0 THEN 1 ELSE 2 * Pow2(k - 1)

Min(a, b) == IF a < b THEN a ELSE b

----------------------------------------------------------------------------
(* scrape_with_retry *)

\* What one execution of the try body (lines 79-105) can do: the engine call
\* raises, or it returns and the monitoring lines 102-103 return or raise.
EngineOutcomes ==
    {[run |-> "err", val |-> e, mon |-> NoError] : e \in EngineErrors}
    \cup {[run |-> "ok", val |-> r, mon |-> m] :
            r \in Results, m \in {"ok"} \cup MonitorErrors}

\* Mutant of AttemptsRemain: an off-by-one that also waits after the last
\* attempt.
AttemptsRemainOffByOne(a, n) == a < n

\* Line 109: attempts remain after the failure of iteration `a`.
AttemptsRemain(a, n) == a < n - 1

\* Mutant of AttemptNumber: the message carries the 0-based loop variable.
AttemptNumberZeroBased(a) == a

\* Line 108: the attempt number in the failure message, {attempt + 1}.
AttemptNumber(a) == a + 1

\* Mutant of NextDelay: the doubling is clamped to a maximum delay.
NextDelayCapped(d) == Min(d * 2, 8)

\* Line 113: the delay for the next retry.
NextDelay(d) == d * 2

\* Mutant of Reraised: the first error of the call is kept and raised.
ReraisedFirst(tr, e) ==
    LET errs == SelectKind(tr, {"run_err", "monitor_err"})
    IN  errs[1].txt

\* Line 116: a bare raise re-raises the exception being handled; tr is what
\* the call did up to it.
Reraised(tr, e) == e

\* Line 77: `for attempt in range(max_retries)` with the next value a: the
\* body runs when a < n; otherwise the loop ends and the function falls off
\* its end, returning None.
LoopPc(a, n) == IF a < n THEN "runner" ELSE "returned"

\* Entry of scrape_with_retry(u, n, d).
CallRunner(u, n, d) ==
    /\ url' = u
    /\ max_retries' = n
    /\ delay' = d
    /\ delay0' = d
    /\ attempt' = 0
    /\ result' = None
    /\ err' = NoError
    /\ trace' = <<>>
    /\ pc' = LoopPc(0, n)

\* One iteration of the loop of scrape_with_retry (lines 77-116).
Attempt(o) ==
    /\ pc = "runner"
    /\ LET ran == IF o.run = "ok"
                  THEN <<Ev("run_ok", attempt + 1, o.val)>>
                  ELSE <<Ev("run_err", attempt + 1, o.val)>>
           mon == IF o.run = "ok"
                  THEN IF o.mon = "ok"
                       THEN <<Ev("monitor_ok", attempt + 1, o.val)>>
                       ELSE <<Ev("monitor_err", attempt + 1, o.mon)>>
                  ELSE <<>>
           e == IF o.run = "ok" THEN o.mon ELSE o.val
           failed == Ev("print_attempt_failed", AttemptNumber(attempt), e)
       IN  IF o.run = "ok" /\ o.mon = "ok"
           THEN \* line 105
                /\ trace' = trace \o ran \o mon
                /\ result' = o.val
                /\ pc' = "returned"
                /\ UNCHANGED <<delay, attempt, err, waits>>
           ELSE IF AttemptsRemain(attempt, max_retries)
           THEN \* lines 108-113, then the next iteration
                /\ trace' = trace \o ran \o mon \o
                       << failed,
                          Ev("print_waiting", delay, NoError),
                          Ev("sleep", delay, NoError) >>
                /\ delay' = NextDelay(delay)
                /\ attempt' = attempt + 1
                /\ pc' = LoopPc(attempt + 1, max_retries)
                /\ waits' = waits + 1
                /\ UNCHANGED <<result, err>>
           ELSE \* lines 108, 115-116
                /\ trace' = trace \o ran \o mon \o
                       << failed, Ev("print_gave_up", max_retries, NoError) >>
                /\ err' = Reraised(trace \o ran \o mon, e)
                /\ pc' = "raised"
                /\ UNCHANGED <<delay, attempt, result, waits>>
    /\ UNCHANGED <<url, max_retries, delay0>>
    /\ engine_calls' = engine_calls + 1
    /\ UNCHANGED <<categories, run, today, idx, events, files, files0>>

----------------------------------------------------------------------------
(* One call of scrape_with_retry *)

InitRunner ==
    /\ categories = CategoryList
    /\ run = 1
    /\ today = 1
    /\ idx = 1
    /\ events = <<>>
    /\ files = <<>>
    /\ files0 = <<>>
    /\ url \in {categories[i] : i \in 1..Len(categories)}
    /\ max_retries \in RetryArgs
    /\ delay \in DelayArgs
    /\ delay0 = delay
    /\ attempt = 0
    /\ result = None
    /\ err = NoError
    /\ trace = <<>>
    /\ engine_calls = 0
    /\ waits = 0
    /\ pc = LoopPc(0, max_retries)

NextRunner == \E o \in EngineOutcomes : Attempt(o)

SpecRunner == InitRunner /\ [][NextRunner]_vars

----------------------------------------------------------------------------
(* The main scraping loop *)

\* Line 125: category_url.split('/')[-1], the tokens after the last "/".
RECURSIVE LastSegment(_)
LastSegment(u) ==
    IF \E i \in 1..Len(u) : u[i] = "/"
    THEN LastSegment(Tail(u))
    ELSE u

\* time.strftime('%Y%m%d') on day d.
DateStrings == <<"20261101", "20261102", "20261103", "20261104">>
Strftime(d) == DateStrings[d]

\* Mutant of Filename: the category is left out of the name.
FilenameDateOnly(u, d) == <<"mobilesentrix_", "_", Strftime(d), ".json">>

\* Line 126: the f-string naming the output file.
Filename(u, d) ==
    <<"mobilesentrix_">> \o LastSegment(u) \o <<"_", Strftime(d), ".json">>

\* Line 129: str(result).
Str(r) == <<"str", r>>

Exists(fs, name) == name \in DOMAIN fs

\* Mutant of OpenW: the file is opened for appending.
OpenA(old) == old

\* Line 128: open(filename, 'w') creates the file or truncates it; old is
\* what the file held, empty when it did not exist.
OpenW(old) == <<>>

\* The file system after the content of `name` became `content`.
WithFile(fs, name, content) ==
    [n \in DOMAIN fs \cup {name} |-> IF n = name THEN content ELSE fs[n]]

Content(fs, name) == IF Exists(fs, name) THEN fs[name] ELSE <<>>

\* Mutant of Catches: only the errors of the scraping engine are caught.
CatchesEngineOnly(e) == e \in {"engine_error", "exec_info_error"}

\* Line 136: `except Exception` catches every error the loop body raises.
Catches(e) == TRUE

\* Line 119: the for loop moves to the next category.
NextItem(i) == i + 1

\* Mutant of ExceptContinue: the failed category is taken again.
ExceptRetry(i) == i

\* Line 138: `continue` in the except clause.
ExceptContinue(i) == NextItem(i)

\* The loop position i: the body runs for it, or the list is exhausted.
LoopTop(i) == IF i <= Len(categories) THEN "loop" ELSE "done"

\* What open() and write() can do at lines 128-129. A write that raises
\* leaves the file as open() made it.
IoOutcomes ==
    {[open |-> e, write |-> NoError] : e \in OpenErrors}
    \cup {[open |-> "ok", write |-> e] : e \in WriteErrors}
    \cup {[open |-> "ok", write |-> "ok"]}

\* The runner's frame is gone once the loop body has its result or exception.
DropFrame ==
    /\ url' = <<>>
    /\ max_retries' = 0
    /\ delay' = 0
    /\ delay0' = 0
    /\ attempt' = 0
    /\ result' = None
    /\ err' = NoError
    /\ trace' = <<>>

\* Lines 136-138 for exception e, after the loop body logged `done`.
Except(e, done) ==
    IF Catches(e)
    THEN /\ events' = events \o done \o <<BEv("print_error", idx, 0, e, <<>>)>>
         /\ idx' = ExceptContinue(idx)
         /\ pc' = LoopTop(ExceptContinue(idx))
    ELSE /\ events' = events \o done
         /\ idx' = idx
         /\ pc' = "crashed"

\* Mutant of CallDelay: the delay lives outside the call, so the two doublings
\* of every category that exhausted its retries are carried over.
CallDelayCarried(evs) ==
    LET gaveUp == {p \in 1..Len(evs) :
                      evs[p].kind = "print_error"
                      /\ evs[p].txt \in EngineErrors \cup MonitorErrors}
    IN  DefaultDelay * Pow2(2 * Cardinality(gaveUp))

\* Lines 75 and 122: the call passes no delay, so the parameter is bound to
\* its default at every call; evs, what the run did before, has no part.
CallDelay(evs) == DefaultDelay

\* Lines 119-122: the loop takes the next category and calls the runner.
StartItem ==
    /\ pc = "loop"
    /\ events' = events \o
          << BEv("print_scraping", idx, 0, NoError, <<>>),
             BEv("call", idx, 0, NoError, <<>>) >>
    /\ CallRunner(categories[idx], DefaultMaxRetries, CallDelay(events))
    /\ UNCHANGED <<categories, run, today, idx, files, files0, engine_calls, waits>>

\* Lines 122-134 after the runner returned, and 136-138 when saving raises.
SaveResult(io) ==
    /\ pc = "returned"
    /\ LET name == Filename(categories[idx], today)
           opened == BEv("open", idx, 0, io.open, name)
           written == BEv("write", idx, 0, io.write, name)
           stored == BEv("written", idx, 0, result, name)
           truncated == WithFile(files, name, OpenW(Content(files, name)))
       IN  IF io.open # "ok"
           THEN /\ files' = files
                /\ Except(io.open, <<opened>>)
           ELSE IF io.write # "ok"
           THEN /\ files' = truncated
                /\ Except(io.write, <<opened, written>>)
           ELSE /\ files' = WithFile(truncated, name,
                                Append(truncated[name], Str(result)))
                /\ events' = events \o
                      << opened, written, stored,
                         BEv("print_saved", idx, 0, NoError, name),
                         BEv("sleep", idx, InterItemDelay, NoError, <<>>) >>
                /\ idx' = NextItem(idx)
                /\ pc' = LoopTop(NextItem(idx))
    /\ DropFrame
    /\ UNCHANGED <<categories, run, today, files0, engine_calls, waits>>

\* Lines 136-138 when scrape_with_retry raised.
ItemFailed ==
    /\ pc = "raised"
    /\ Except(err, <<>>)
    /\ DropFrame
    /\ UNCHANGED <<categories, run, today, files, files0, engine_calls, waits>>

\* The script is started again in the same directory, on the same day.
Rerun ==
    /\ pc \in {"done", "crashed"}
    /\ run < MaxRuns
    /\ run' = run + 1
    /\ idx' = 1
    /\ pc' = LoopTop(1)
    /\ events' = <<>>
    /\ files0' = files
    /\ engine_calls' = 0
    /\ waits' = 0
    /\ UNCHANGED <<categories, today, files>>
    /\ UNCHANGED runnerVars

Init ==
    /\ categories = CategoryList
    /\ run = 1
    /\ today = 1
    /\ idx = 1
    /\ pc = LoopTop(1)
    /\ events = <<>>
    /\ files = <<>>
    /\ files0 = <<>>
    /\ url = <<>>
    /\ max_retries = 0
    /\ delay = 0
    /\ delay0 = 0
    /\ attempt = 0
    /\ result = None
    /\ err = NoError
    /\ trace = <<>>
    /\ engine_calls = 0
    /\ waits = 0

Next ==
    \/ StartItem
    \/ \E o \in EngineOutcomes : Attempt(o)
    \/ \E io \in IoOutcomes : SaveResult(io)
    \/ ItemFailed
    \/ Rerun

Spec == Init /\ [][Next]_vars

----------------------------------------------------------------------------
(* One run of the main loop over other category lists *)

\* Identifiers of up to MaxIdLen tokens, with and without path separators.
Tokens == {"a", "/"}
Identifiers == UNION {[1..n -> Tokens] : n \in 1..MaxIdLen}

InitLists ==
    /\ categories \in {<<u, v>> : u, v \in Identifiers} \ {<<u, u>> : u \in Identifiers}
    /\ run = 1
    /\ today = 1
    /\ idx = 1
    /\ pc = LoopTop(1)
    /\ events = <<>>
    /\ files = <<>>
    /\ files0 = <<>>
    /\ url = <<>>
    /\ max_retries = 0
    /\ delay = 0
    /\ delay0 = 0
    /\ attempt = 0
    /\ result = None
    /\ err = NoError
    /\ trace = <<>>
    /\ engine_calls = 0
    /\ waits = 0

NextLists ==
    \/ StartItem
    \/ \E o \in EngineOutcomes : Attempt(o)
    \/ \E io \in IoOutcomes : SaveResult(io)
    \/ ItemFailed

SpecLists == InitLists /\ [][NextLists]_vars

\* One run of the program. The script is sequential and every call it makes
\* (engine, sleep, open, write) returns or raises, so an enabled step is
\* eventually taken.
SpecOnce == Init /\ [][NextLists]_vars /\ WF_vars(NextLists)

----------------------------------------------------------------------------
(* Observations on one runner call *)

EngineCalls == SelectKind(trace, {"run_ok", "run_err"})
Sleeps == SelectKind(trace, {"sleep"})
AttemptErrors == SelectKind(trace, {"run_err", "monitor_err"})
EnginePos == Positions(trace, {"run_ok", "run_err"})
SleepPos == Positions(trace, {"sleep"})

AllEngineFailed == \A k \in 1..Len(EngineCalls) : EngineCalls[k].kind = "run_err"

\* The attempts whose engine call returned.
EngineSucceeded == {k \in 1..Len(EngineCalls) : EngineCalls[k].kind = "run_ok"}

----------------------------------------------------------------------------
(* Claims on scrape_with_retry, checked under SpecRunner *)

\* C1: with max_retries = n >= 1 and the engine call failing on every
\* attempt, the call makes at most n attempts, never returns, and once n
\* attempts are made it has raised, after exactly n - 1 waits, none of them
\* after the n-th attempt.
C1_ExhaustsAfterNAttempts ==
    (max_retries >= 1 /\ AllEngineFailed) =>
        /\ Len(EngineCalls) <= max_retries
        /\ pc # "returned"
        /\ (Len(EngineCalls) = max_retries <=> pc = "raised")
        /\ pc = "raised" =>
              /\ err # NoError
              /\ Len(Sleeps) = max_retries - 1
              /\ \A j \in 1..Len(SleepPos) : SleepPos[j] < EnginePos[max_retries]

C1_Witness ==
    /\ pc = "raised"
    /\ AllEngineFailed
    /\ max_retries = DefaultMaxRetries
    /\ Len(EngineCalls) = DefaultMaxRetries

\* C2: the j-th wait of a call lasts delay * 2^(j-1), delay being the initial
\* delay; it comes after the j-th attempt and before the next one, and there
\* is one wait per failed attempt except the last attempt allowed.
C2_WaitsDouble ==
    /\ \A j \in 1..Len(Sleeps) :
          /\ Sleeps[j].num = delay0 * Pow2(j - 1)
          /\ EnginePos[j] < SleepPos[j]
          /\ j < Len(EnginePos) => SleepPos[j] < EnginePos[j + 1]
    /\ Len(Sleeps) = Min(Len(AttemptErrors), max_retries - 1) \/ max_retries < 1

C2_Witness ==
    /\ delay0 = DefaultDelay
    /\ Len(Sleeps) = 2
    /\ Sleeps[1].num = 5
    /\ Sleeps[2].num = 10

\* C3: when the engine call first succeeds on attempt k, the call has
\* returned that attempt's result after exactly k attempts and k - 1 waits.
C3_FirstSuccessReturns ==
    \A k \in EngineSucceeded :
        (\A j \in 1..(k - 1) : j \notin EngineSucceeded) =>
            /\ pc = "returned"
            /\ result = EngineCalls[k].txt
            /\ Len(EngineCalls) = k
            /\ Len(Sleeps) = k - 1

\* C7: the error a call raises is the error of its last, max_retries-th,
\* attempt.
C7_RaisesLastError ==
    pc = "raised" =>
        /\ AttemptErrors # <<>>
        /\ AttemptErrors[Len(AttemptErrors)].num = max_retries
        /\ err = AttemptErrors[Len(AttemptErrors)].txt

C7_Witness ==
    /\ pc = "raised"
    /\ Len(AttemptErrors) >= 2
    /\ AttemptErrors[1].txt # err

\* C13: every failed attempt is followed at once by one failure message with
\* the attempt's 1-based number, the url and the error text; every wait is
\* announced once, right after that message and right before the wait, with
\* the duration waited; the last attempt allowed gets no announcement.
C13_MessagesPerFailure ==
    LET errPos == Positions(trace, {"run_err", "monitor_err"})
        failPos == Positions(trace, {"print_attempt_failed"})
        waitPos == Positions(trace, {"print_waiting"})
    IN  /\ Len(failPos) = Len(errPos)
        /\ \A j \in 1..Len(errPos) :
              /\ failPos[j] = errPos[j] + 1
              /\ trace[failPos[j]].num = j
              /\ trace[failPos[j]].num = trace[errPos[j]].num
              /\ trace[failPos[j]].url = url
              /\ trace[failPos[j]].txt = trace[errPos[j]].txt
        /\ Len(waitPos) = Len(SleepPos)
        /\ \A j \in 1..Len(waitPos) :
              /\ waitPos[j] = failPos[j] + 1
              /\ SleepPos[j] = waitPos[j] + 1
              /\ trace[waitPos[j]].num = trace[SleepPos[j]].num
              /\ trace[waitPos[j]].num = delay0 * Pow2(j - 1)
        /\ pc = "raised" => Len(waitPos) = Len(failPos) - 1

C13_Witness ==
    /\ pc = "raised"
    /\ max_retries = DefaultMaxRetries
    /\ Len(Positions(trace, {"print_attempt_failed"})) = 3
    /\ Len(Positions(trace, {"print_waiting"})) = 2

\* C15: for every max_retries, a call that has returned returns the result
\* of an engine call of its own that succeeded.
C15_ReturnsOnlyAfterSuccess ==
    pc = "returned" =>
        /\ result \in Results
        /\ \E k \in EngineSucceeded : EngineCalls[k].txt = result

\* C16: an engine call that returned is the last engine call of its runner
\* call, and the runner call returns its result.
C16_NoInvocationAfterSuccess ==
    \A k \in EngineSucceeded :
        /\ k = Len(EngineCalls)
        /\ pc = "returned"
        /\ result = EngineCalls[k].txt

----------------------------------------------------------------------------
(* Observations on one run of the main loop *)

Items == 1..Len(categories)
Calls == SelectKind(events, {"call"})
EventsOf(i) == {p \in 1..Len(events) : events[p].item = i}

\* The items whose processing ended in the except clause.
Failed == {events[p].item : p \in {q \in 1..Len(events) :
                                       events[q].kind = "print_error"}}
\* The items whose runner raised after its last attempt.
Exhausted == {events[p].item : p \in {q \in 1..Len(events) :
                 events[q].kind = "print_error"
                 /\ events[q].txt \in EngineErrors \cup MonitorErrors}}
\* The positions at which open() or write() raised.
PersistFailures ==
    {p \in 1..Len(events) :
        events[p].kind \in {"open", "write"} /\ events[p].txt # "ok"}

OutputName(i) == Filename(categories[i], today)

----------------------------------------------------------------------------
(* Claims on the main loop, checked under Spec *)

\* C4: the loop calls the runner for the items 1, 2, ... in list order, once
\* each, whatever the earlier items did; no exception leaves the loop, and
\* the run ends only when every item was processed.
C4_EveryItemOnceInOrder ==
    /\ pc # "crashed"
    /\ \A j \in 1..Len(Calls) : Calls[j].item = j
    /\ Len(Calls) = IF pc = "loop" THEN idx - 1 ELSE Min(idx, Len(categories))
    /\ pc = "done" => Len(Calls) = Len(categories)
    /\ pc = "loop" => idx \in Items

C4_Witness ==
    /\ pc = "done"
    /\ \E i \in Exhausted : i < Len(categories)
    /\ \E p \in PersistFailures : events[p].item < Len(categories)
    /\ Len(Calls) = Len(categories)

\* C5: in a run that found an empty directory and in which some item
\* exhausted its retries, every item was attempted, every item that did not
\* fail has its output file, and the number of output files equals the
\* number of items that did not fail.
C5_ArtifactsCountNonFailing ==
    (pc = "done" /\ files0 = <<>> /\ Exhausted # {}) =>
        /\ \A i \in Items : \E p \in EventsOf(i) : events[p].kind = "call"
        /\ \A i \in Items \ Failed : Exists(files, OutputName(i))
        /\ Cardinality(DOMAIN files) = Cardinality(Items \ Failed)

\* C6: every item, failed or not, is followed by the 5 second delay before
\* the next item starts (or the run ends).
C6_DelayAfterEveryItem ==
    /\ \A p \in 2..Len(events) :
          events[p].kind = "print_scraping" =>
              /\ events[p - 1].kind = "sleep"
              /\ events[p - 1].num = InterItemDelay
    /\ (pc = "done" /\ events # <<>>) =>
          /\ events[Len(events)].kind = "sleep"
          /\ events[Len(events)].num = InterItemDelay

\* C8: when open() or write() raises for an item, the error is logged next,
\* nothing more is done for that item (no runner call, no open, no write),
\* and the loop goes on with the item after it.
C8_PersistFailureNotRetried ==
    \A p \in PersistFailures :
        /\ p < Len(events)
        /\ events[p + 1].kind = "print_error"
        /\ events[p + 1].item = events[p].item
        /\ events[p + 1].txt = events[p].txt
        /\ \A q \in (p + 2)..Len(events) : events[q].item > events[p].item
        /\ p + 2 <= Len(events) => events[p + 2].item = events[p].item + 1
        /\ idx > events[p].item
        /\ url # categories[events[p].item]
        /\ pc # "crashed"
        /\ Cardinality({q \in EventsOf(events[p].item) :
                           events[q].kind = "open"}) = 1
        /\ Cardinality({q \in EventsOf(events[p].item) :
                           events[q].kind = "call"}) = 1

C8_Witness ==
    \E p \in PersistFailures :
        /\ events[p].kind = "write"
        /\ \E q \in (p + 1)..Len(events) :
              /\ events[q].kind = "print_saved"
              /\ events[q].item = events[p].item + 1

\* C9: whenever a run saved an item, the file under the item's derived name
\* holds exactly what that run wrote, whatever an earlier run on the same
\* date left under that name; and no run leaves a file under another name.
C9_SecondWriteReplaces ==
    /\ \A p \in 1..Len(events) :
          events[p].kind = "written" =>
              /\ Exists(files, events[p].name)
              /\ files[events[p].name] = <<Str(events[p].txt)>>
              /\ events[p].name = OutputName(events[p].item)
    /\ \A n \in DOMAIN files : \E i \in Items : n = OutputName(i)

C9_Witness ==
    /\ run = 2
    /\ pc = "done"
    /\ \E p \in 1..Len(events) :
          /\ events[p].kind = "written"
          /\ Exists(files0, events[p].name)
          /\ files0[events[p].name] = <<Str("r1")>>
          /\ files[events[p].name] = <<Str("r2")>>

\* C10: after a run that found an empty directory, an item has no output
\* file exactly when it failed in the run.
C10_NoFileIffFailed ==
    (pc = "done" /\ files0 = <<>>) =>
        \A i \in Items : ~Exists(files, OutputName(i)) <=> i \in Failed

\* C11: in every runner call of the main loop the delay starts at the
\* initial delay, so the first wait of every item lasts 5, whatever the
\* calls for earlier items did to their delay.
C11_BackoffNotShared ==
    pc \in {"runner", "returned", "raised"} =>
        /\ delay0 = DefaultDelay
        /\ Sleeps # <<>> => Sleeps[1].num = DefaultDelay

C11_Witness ==
    /\ idx = 2
    /\ 1 \in Exhausted
    /\ Sleeps # <<>>
    /\ Sleeps[1].num = 5

----------------------------------------------------------------------------
(* Claims on the output names, checked under SpecLists *)

\* What every item saved so far in this run wrote is still in its file.
SavedIntact ==
    \A p \in 1..Len(events) :
        events[p].kind = "written" =>
            /\ Exists(files, events[p].name)
            /\ files[events[p].name] = <<Str(events[p].txt)>>

NamesDistinct ==
    \A i, j \in Items : i # j => OutputName(i) # OutputName(j)

\* C12 as stated: the items of a list of pairwise distinct identifiers have
\* pairwise distinct output names on one date, and no item's artifact is
\* overwritten by another item of the run.
C12_DistinctIdsDistinctNames ==
    (\A i, j \in Items : i # j => categories[i] # categories[j]) =>
        /\ NamesDistinct
        /\ SavedIntact

\* C12 amended: the items of a list whose identifiers have pairwise distinct
\* last path segments have pairwise distinct output names on one date, and
\* no item's artifact is overwritten by another item of the run.
C12_DistinctSegmentsDistinctNames ==
    (\A i, j \in Items :
        i # j => LastSegment(categories[i]) # LastSegment(categories[j])) =>
        /\ NamesDistinct
        /\ SavedIntact

C12_Witness ==
    /\ pc = "done"
    /\ \E i \in Items : LastSegment(categories[i]) # categories[i]
    /\ LastSegment(categories[1]) # LastSegment(categories[2])
    /\ Cardinality({p \in 1..Len(events) : events[p].kind = "written"}) = 2
    /\ Cardinality(DOMAIN files) = 2

----------------------------------------------------------------------------
(* Claims on the size of a run, checked under SpecOnce *)

C14_Bounds ==
    /\ \A i \in Items :
          Cardinality({p \in EventsOf(i) : events[p].kind = "call"})
              = IF i < idx \/ (i = idx /\ pc # "loop") THEN 1 ELSE 0
    /\ pc \in {"runner", "returned", "raised"} =>
          /\ max_retries = DefaultMaxRetries
          /\ Len(EngineCalls) <= max_retries
          /\ Len(Sleeps) <= max_retries - 1
    /\ engine_calls <= Len(Calls) * DefaultMaxRetries
    /\ waits <= Len(Calls) * (DefaultMaxRetries - 1)
    /\ engine_calls <= Len(categories) * DefaultMaxRetries
    /\ waits <= Len(categories) * (DefaultMaxRetries - 1)

\* C14: a run ends; the loop calls the runner once per item, a call makes at
\* most max_retries engine invocations, and the run makes at most m * n
\* engine invocations and m * (n - 1) waits, for m items and max_retries n.
C14_TerminatesWithinBounds == []C14_Bounds /\ <>(pc = "done")

C14_Witness ==
    /\ pc = "done"
    /\ engine_calls = Len(categories) * DefaultMaxRetries
    /\ waits = Len(categories) * (DefaultMaxRetries - 1)
    /\ Len(Calls) = Len(categories)

----------------------------------------------------------------------------
(* Claims on the files of a failed item, checked under Spec *)

\* The runner call in progress has failed on every attempt it is allowed.
RetriesExhausted ==
    /\ pc \in {"runner", "returned", "raised"}
    /\ max_retries >= 1
    /\ Len(AttemptErrors) = max_retries

\* C17: no step of a runner call, and no step the loop takes for an item
\* whose runner failed on all its attempts, changes the files: none is
\* created, truncated or written.
C17_ExhaustedItemLeavesFiles ==
    [][(pc = "runner" \/ RetriesExhausted) => files' = files]_vars

C17_Witness ==
    /\ run = 2
    /\ 1 \in Exhausted
    /\ pc = "loop"
    /\ idx = 2
    /\ Exists(files0, OutputName(1))
    /\ files0[OutputName(1)] = <<Str("r1")>>
    /\ files = files0

====
